---- MODULE Spec2Model ----
(***************************************************************************)
(* State-machine model of the Bing harvesting pipeline of scraper.py:      *)
(* normalize_url / generate_unique_id / is_relevant_result (pure helpers), *)
(* scrape_query (one listing page), scrape_page_and_save (one content      *)
(* fetch with retries) and scrape_multiple_queries (the orchestrator:      *)
(* collect, save to DB, save to CSV, gather the content fetches).          *)
(*                                                                         *)
(* A Python string is the sequence of its code points, so that lower(),    *)
(* split(), rstrip('/'), repr() and the substring test are computed.       *)
(***************************************************************************)
EXTENDS Integers, Sequences, FiniteSets, TLC

(***************************************************************************)
(* Bounds of the model (not program constants).                            *)
(***************************************************************************)
MaxQueries == 2
\* the largest max_retries argument of scrape_page_and_save in FetchSpec
MaxRetriesArg == 3
\* the number of normalize_url calls of NormalizeSpec
MaxCalls == 3
\* the number of records handed to save_to_csv in ExportSpec
MaxCsvLen == 3

(***************************************************************************)
(* Program constants.                                                      *)
(***************************************************************************)
\* range(1, 11) in scrape_multiple_queries: pages 1..10 of every query
MaxPages == 10
\* default of the max_retries parameter of scrape_page_and_save
DefaultMaxRetries == 3
\* wait_time = 5 * attempt
BackoffUnit == 5

(***************************************************************************)
(* Strings.                                                                *)
(***************************************************************************)
\* str.lower() on one character: 'A'..'Z' (65..90) to 'a'..'z' (97..122)
LowerChar(c) == IF c \in 65..90 THEN c + 32 ELSE c

\* str.lower()
RECURSIVE Lower(_)
Lower(s) == IF s = << >> THEN << >> ELSE << LowerChar(Head(s)) >> \o Lower(Tail(s))

\* the characters str.split() and str.strip() treat as whitespace
\* (tab, newline, vertical tab, form feed, carriage return, space)
IsSpace(c) == c \in {9, 10, 11, 12, 13, 32}

\* needle in hay (Python's substring test; the empty string is in every string)
Contains(hay, needle) ==
  \E i \in 0..(Len(hay) - Len(needle)) :
     \A j \in 1..Len(needle) : hay[i + j] = needle[j]

\* str.split(): the maximal runs of non-whitespace characters, in order
RECURSIVE SplitFrom(_, _, _)
SplitFrom(s, i, cur) ==
  IF i > Len(s)
    THEN IF cur = << >> THEN << >> ELSE << cur >>
    ELSE IF IsSpace(s[i])
           THEN (IF cur = << >> THEN << >> ELSE << cur >>) \o SplitFrom(s, i + 1, << >>)
           ELSE SplitFrom(s, i + 1, Append(cur, s[i]))
Split(s) == SplitFrom(s, 1, << >>)

\* s.rstrip(ch)
RECURSIVE RStrip(_, _)
RStrip(s, ch) ==
  IF s # << >> /\ s[Len(s)] = ch THEN RStrip(SubSeq(s, 1, Len(s) - 1), ch) ELSE s

\* s < t for Python strings (lexicographic, by code point)
RECURSIVE StrLess(_, _)
StrLess(s, t) ==
  IF t = << >> THEN FALSE
  ELSE IF s = << >> THEN TRUE
  ELSE IF s[1] # t[1] THEN s[1] < t[1]
  ELSE StrLess(Tail(s), Tail(t))

(***************************************************************************)
(* URLs.  A URL string is modelled by the components urlparse() splits it  *)
(* into; its query component is the sequence of key=value pairs between    *)
(* the '&' separators.  The URL "" has every component empty.              *)
(***************************************************************************)
Url(scheme, netloc, path, query) ==
  [scheme |-> scheme, netloc |-> netloc, path |-> path, params |-> << >>,
   query |-> query, fragment |-> << >>]

EmptyUrl == Url(<< >>, << >>, << >>, << >>)

\* urlparse(url) raises ValueError("Invalid IPv6 URL") for an unbalanced bracket
\* in the network location
UrlParseRaises(url) ==
  LET hasOpen == \E i \in 1..Len(url.netloc) : url.netloc[i] = 91   \* '['
      hasClose == \E i \in 1..Len(url.netloc) : url.netloc[i] = 93  \* ']'
  IN  hasOpen # hasClose

\* repr(s) of a str: single quotes, unless s holds a ' and no "
RECURSIVE EscapeQuoted(_)
EscapeQuoted(s) ==
  IF s = << >> THEN << >>
  ELSE (IF Head(s) \in {39, 92} THEN << 92, Head(s) >> ELSE << Head(s) >>)
         \o EscapeQuoted(Tail(s))
\* (39 is ', 34 is ", 92 is the backslash)
PyReprStr(s) ==
  IF Contains(s, << 39 >>) /\ ~Contains(s, << 34 >>)
    THEN << 34 >> \o s \o << 34 >>
    ELSE << 39 >> \o EscapeQuoted(s) \o << 39 >>

\* str(list_of_str): "[" + ", ".join(repr(x)) + "]"
RECURSIVE JoinRepr(_)
JoinRepr(vs) ==
  IF vs = << >> THEN << >>
  ELSE IF Len(vs) = 1 THEN PyReprStr(vs[1])
  ELSE PyReprStr(vs[1]) \o << 44, 32 >> \o JoinRepr(Tail(vs))
PyStrList(vs) == << 91 >> \o JoinRepr(vs) \o << 93 >>

\* parse_qs(query): pairs with a blank value are dropped (keep_blank_values is
\* False); the values of a key are collected, in order, in one list
QsPairs(query) == SelectSeq(query, LAMBDA kv : kv.v # << >>)
QsKeys(query) == {QsPairs(query)[i].k : i \in 1..Len(QsPairs(query))}
RECURSIVE ValuesOf(_, _)
ValuesOf(pairs, key) ==
  IF pairs = << >> THEN << >>
  ELSE (IF Head(pairs).k = key THEN << Head(pairs).v >> ELSE << >>)
         \o ValuesOf(Tail(pairs), key)

\* sorted(query_params.items()): by key (the keys of a dict are distinct)
RECURSIVE SortedKeys(_)
SortedKeys(S) ==
  IF S = {} THEN << >>
  ELSE LET m == CHOOSE x \in S : \A y \in S \ {x} : StrLess(x, y)
       IN  << m >> \o SortedKeys(S \ {m})

\* urlencode(sorted(parse_qs(query).items())), without doseq: every value is
\* str() of the list of the key's values.  quote_plus is injective, so the
\* encoded query is kept as the pairs it decodes to.
RECURSIVE EncodeItems(_, _)
EncodeItems(keys, pairs) ==
  IF keys = << >> THEN << >>
  ELSE << [k |-> Head(keys), v |-> PyStrList(ValuesOf(pairs, Head(keys)))] >>
         \o EncodeItems(Tail(keys), pairs)
SortedQuery(query) == EncodeItems(SortedKeys(QsKeys(query)), QsPairs(query))

\* normalize_url(url), for a url that urlparse accepts
normalize_url(url) ==
  [scheme |-> Lower(url.scheme),
   netloc |-> Lower(url.netloc),
   path |-> RStrip(url.path, 47),
   params |-> << >>,
   query |-> SortedQuery(url.query),
   fragment |-> << >>]

\* generate_unique_id(url): the MD5 digest of the string, taken as free of
\* collisions (a digest is a function of the string and nothing else)
generate_unique_id(url) == [md5 |-> url]

\* is_relevant_result(title, snippet, query)
is_relevant_result(title, snippet, query) ==
  LET query_keywords == Split(Lower(query))
      t == Lower(title)
      s == Lower(snippet)
  IN  \/ \E i \in 1..Len(query_keywords) : Contains(t, query_keywords[i])
      \/ \E i \in 1..Len(query_keywords) : Contains(s, query_keywords[i])

(***************************************************************************)
(* The inputs the model draws from: queries, and the entries (li.b_algo)   *)
(* a listing page can hold, as scrape_query extracts them (title, href,    *)
(* snippet).                                                               *)
(***************************************************************************)
\* "cat"
Q_cat == << 99, 97, 116 >>
\* "Dog x"
Q_dog == << 68, 111, 103, 32, 120 >>
Queries == {Q_cat, Q_dog}

\* "http"
S_http == << 104, 116, 116, 112 >>
\* http://A/p/ and http://a/p have the same canonical form
U_A1 == Url(S_http, << 65 >>, << 47, 112, 47 >>, << >>)
U_A2 == Url(S_http, << 97 >>, << 47, 112 >>, << >>)
\* http://b/?b=1&a=2
U_B == Url(S_http, << 98 >>, << 47 >>,
           << [k |-> << 98 >>, v |-> << 49 >>], [k |-> << 97 >>, v |-> << 50 >>] >>)
\* http://c
U_C == Url(S_http, << 99 >>, << >>, << >>)
\* http://[a/ : urlparse raises ValueError
U_Bad == Url(S_http, << 91, 97 >>, << 47 >>, << >>)

Entry(title, url, snippet) == [title |-> title, url |-> url, snippet |-> snippet]

\* "Cat", http://A/p/, ""
E_cat == Entry(<< 67, 97, 116 >>, U_A1, << >>)
\* "Zz", http://a/p, "cat dog"
E_both == Entry(<< 90, 122 >>, U_A2, << 99, 97, 116, 32, 100, 111, 103 >>)
\* "Dog", http://b/?b=1&a=2, ""
E_dog == Entry(<< 68, 111, 103 >>, U_B, << >>)
\* "", http://b/?b=1&a=2, "cat": no title
E_notitle == Entry(<< >>, U_B, << 99, 97, 116 >>)
\* "Cat", "", "dog": no href
E_nourl == Entry(<< 67, 97, 116 >>, EmptyUrl, << 100, 111, 103 >>)
\* "Zz", http://c, "zz": no keyword of either query
E_other == Entry(<< 90, 122 >>, U_C, << 122, 122 >>)
\* "Cat Dog", http://[a/, "": urlparse raises on its href
E_bad == Entry(<< 67, 97, 116, 32, 68, 111, 103 >>, U_Bad, << >>)

Entries == {E_cat, E_both, E_dog, E_notitle, E_nourl, E_other, E_bad}

\* the listings a page of results can hold: none, every single entry, and
\* pairs: the same canonical URL twice, two canonical URLs, and an accepted
\* entry before the one that raises
ListingPages ==
  {<< >>} \cup {<< e >> : e \in Entries}
    \cup { << E_cat, E_both >>, << E_dog, E_both >>, << E_both, E_bad >> }

RECURSIVE SeqsUpTo(_, _)
SeqsUpTo(S, n) ==
  IF n = 0 THEN {<< >>}
  ELSE LET shorter == SeqsUpTo(S, n - 1)
       IN  shorter \cup {Append(q, x) : q \in {r \in shorter : Len(r) = n - 1}, x \in S}

\* what crawler.arun(url) of scrape_query can do: raise, or answer with a listing
ListingResponses ==
  {[ok |-> FALSE, entries |-> << >>]}
    \cup {[ok |-> TRUE, entries |-> es] : es \in ListingPages}

QueryLists == SeqsUpTo(Queries, MaxQueries)

(***************************************************************************)
(* scrape_query                                                            *)
(***************************************************************************)
\* a bug of line 92: the relevance of the entry is not checked
EntryAcceptedMutant(title, result_url, snippet, query) ==
  title # << >> /\ result_url # EmptyUrl

\* line 92: if title and result_url and is_relevant_result(title, snippet, query)
EntryAccepted(title, result_url, snippet, query) ==
  /\ title # << >>
  /\ result_url # EmptyUrl
  /\ is_relevant_result(title, snippet, query)

\* a bug of line 96: the registry is not consulted
NotSeenMutant(normalized_url, seen) == TRUE

\* line 96: if normalized_url not in seen_urls
NotSeen(normalized_url, seen) == normalized_url \notin seen

\* lines 99-104: the tuple appended to results
Candidate(query, title, result_url, snippet, unique_id) ==
  [query |-> query, title |-> title, url |-> result_url, snippet |-> snippet,
   unique_id |-> unique_id]

\* The checks of lines 92-93 on the inputs of the model, evaluated once:
\* Accepted[query, entry], Raises[url] (urlparse raises) and Canonical[url]
EntryUrls == {e.url : e \in Entries}
Accepted ==
  [q \in Queries, e \in Entries |-> EntryAccepted(e.title, e.url, e.snippet, q)]
Raises == [u \in EntryUrls |-> UrlParseRaises(u)]
Canonical == [u \in EntryUrls |-> normalize_url(u)]

\* lines 84-106: the loop over the entries of the page, from entry i on.
\* raised: an exception left the loop (normalize_url -> urlparse -> ValueError);
\* seen_urls keeps what the loop added before it.
RECURSIVE ParseFrom(_, _, _, _, _)
ParseFrom(query, entries, i, results, seen) ==
  IF i > Len(entries)
    THEN [results |-> results, seen |-> seen, raised |-> FALSE]
    ELSE LET e == entries[i] IN
      IF Accepted[query, e]
        THEN IF Raises[e.url]
               THEN [results |-> results, seen |-> seen, raised |-> TRUE]
               ELSE LET normalized_url == Canonical[e.url] IN
                 IF NotSeen(normalized_url, seen)
                   THEN ParseFrom(query, entries, i + 1,
                          Append(results,
                                 Candidate(query, e.title, e.url, e.snippet,
                                           generate_unique_id(normalized_url))),
                          seen \cup {normalized_url})
                   ELSE ParseFrom(query, entries, i + 1, results, seen)
        ELSE ParseFrom(query, entries, i + 1, results, seen)

\* a bug of lines 112-114: the records parsed before the exception are returned
OnListingErrorMutant(results) == results

\* lines 112-114: except Exception: return []
OnListingError(results) == << >>

\* scrape_query(query, page_number, seen_urls), given what the provider answers:
\* the list returned, the registry as the call leaves it, and whether the
\* except branch ran
scrape_query(query, resp, seen) ==
  IF ~resp.ok
    THEN [results |-> OnListingError(<< >>), seen |-> seen, error |-> TRUE]
    ELSE LET parsed == ParseFrom(query, resp.entries, 1, << >>, seen) IN
      IF parsed.raised
        THEN [results |-> OnListingError(parsed.results), seen |-> parsed.seen,
              error |-> TRUE]
        ELSE [results |-> parsed.results, seen |-> parsed.seen, error |-> FALSE]

(***************************************************************************)
(* The database behind get_session(): the rows of search_results, in       *)
(* insertion order.  unique_id is UNIQUE; the primary key id is assigned   *)
(* by the database and never set by the program.                           *)
(***************************************************************************)
DbFaults == {"none", "get_session", "merge", "commit", "rollback"}

StoredIds(rows) == {rows[i].unique_id : i \in 1..Len(rows)}

\* lines 166-172: SearchResult(query=..., title=..., url=..., snippet=..., unique_id=...)
SearchResult(r) ==
  [query |-> r.query, title |-> r.title, url |-> r.url, snippet |-> r.snippet,
   unique_id |-> r.unique_id]

\* line 173: session.merge(search_result).  The object carries no primary key
\* (id is None), so merge() finds nothing to reconcile it with and adds it to
\* the session as a new row, to be INSERTed at the flush of commit().
merge(pending, search_result) == Append(pending, search_result)

RECURSIVE MergeAll(_, _)
MergeAll(pending, results) ==
  IF results = << >> THEN pending
  ELSE MergeAll(merge(pending, SearchResult(Head(results))), Tail(results))

\* the flush of commit(): the INSERTs violate UNIQUE(unique_id)
IntegrityError(rows, pending) ==
  \/ \E i \in 1..Len(pending) : pending[i].unique_id \in StoredIds(rows)
  \/ \E i, j \in 1..Len(pending) : i # j /\ pending[i].unique_id = pending[j].unique_id

\* a bug of lines 165-174: commit() is called for every record, in the loop, so
\* the rows before the failing one stay in the table
SaveToDbMutant(rows, results, fault) ==
  IF fault = "get_session"
    THEN [rows |-> rows, outcome |-> "raised"]
  ELSE LET pending == MergeAll(<< >>, results)
           kept == SubSeq(pending, 1, Len(pending) - 1)
       IN
    IF fault = "rollback"
      THEN [rows |-> rows \o kept, outcome |-> "raised"]
    ELSE IF fault \in {"merge", "commit"} \/ IntegrityError(rows, pending)
      THEN [rows |-> rows \o kept, outcome |-> "rolled_back"]
    ELSE [rows |-> rows \o pending, outcome |-> "committed"]

\* lines 163-180 of scrape_multiple_queries, under a fault of the database:
\*   get_session  get_session() raises (line 163, outside the try)
\*   merge        merge() raises inside the try; rollback() works
\*   commit       commit() raises for a reason of the database's; rollback() works
\*   rollback     commit() raises and then rollback() raises too
\* outcome: committed, rolled_back, or raised (the exception leaves
\* scrape_multiple_queries)
SaveToDb(rows, results, fault) ==
  IF fault = "get_session"
    THEN [rows |-> rows, outcome |-> "raised"]
  ELSE IF fault = "merge"
    THEN [rows |-> rows, outcome |-> "rolled_back"]
  ELSE LET pending == MergeAll(<< >>, results) IN
    IF fault = "rollback"
      THEN [rows |-> rows, outcome |-> "raised"]
    ELSE IF fault = "commit" \/ IntegrityError(rows, pending)
      THEN [rows |-> rows, outcome |-> "rolled_back"]
    ELSE [rows |-> rows \o pending, outcome |-> "committed"]

(***************************************************************************)
(* save_to_csv                                                             *)
(***************************************************************************)
\* a bug of line 50: the URL is compared as it was found
CsvKeyMutant(item) == item.url

\* line 50: normalized_url = normalize_url(item['url'])
CsvKey(item) == normalize_url(item.url)

\* lines 49-55: the rows written after the header row, from record i on
RECURSIVE CsvRowsFrom(_, _, _, _)
CsvRowsFrom(results, i, written, seen) ==
  IF i > Len(results) THEN written
  ELSE LET normalized_url == CsvKey(results[i]) IN
    IF normalized_url \notin seen
      THEN CsvRowsFrom(results, i + 1, Append(written, results[i]),
                       seen \cup {normalized_url})
      ELSE CsvRowsFrom(results, i + 1, written, seen)

save_to_csv(results) == CsvRowsFrom(results, 1, << >>, {})

(***************************************************************************)
(* scrape_page_and_save                                                    *)
(***************************************************************************)
\* what crawler.arun(url) of scrape_page_and_save can do: raise (network error,
\* timeout), or answer with response.markdown: "", " ", "<p>", "<p>ok "
Bodies == { << >>, << 32 >>, << 60, 112, 62 >>, << 60, 112, 62, 111, 107, 32 >> }
ContentResponses ==
  {[ok |-> FALSE, markdown |-> << >>]} \cup {[ok |-> TRUE, markdown |-> b] : b \in Bodies}

\* s.strip()
RECURSIVE LStripSpace(_)
LStripSpace(s) == IF s # << >> /\ IsSpace(Head(s)) THEN LStripSpace(Tail(s)) ELSE s
RECURSIVE RStripSpace(_)
RStripSpace(s) ==
  IF s # << >> /\ IsSpace(s[Len(s)]) THEN RStripSpace(SubSeq(s, 1, Len(s) - 1)) ELSE s
Strip(s) == LStripSpace(RStripSpace(s))

\* the text outside the tags <...> (60 is <, 62 is >)
RECURSIVE TextOutsideTags(_, _)
TextOutsideTags(html, inTag) ==
  IF html = << >> THEN << >>
  ELSE IF inTag THEN TextOutsideTags(Tail(html), Head(html) # 62)
  ELSE IF Head(html) = 60 THEN TextOutsideTags(Tail(html), TRUE)
  ELSE << Head(html) >> \o TextOutsideTags(Tail(html), FALSE)

\* BeautifulSoup(html).get_text(separator="\n", strip=True): the text between
\* the tags, stripped
GetText(html) == Strip(TextOutsideTags(html, FALSE))

\* line 124: if not html or not html.strip()
EmptyHtml(html) == html = << >> \/ Strip(html) = << >>

\* line 130: if not text_content.strip()
NoText(text_content) == Strip(text_content) = << >>

\* line 144: if attempt < max_retries
MayRetry(attempt, max_retries) == attempt < max_retries

\* a bug of line 145: the constant RETRY_DELAY in the place of 5 * attempt
WaitTimeMutant(attempt) == BackoffUnit

\* line 145: wait_time = 5 * attempt
WaitTime(attempt) == BackoffUnit * attempt

\* the coroutine of one scrape_page_and_save(url, unique_id, max_retries) call:
\*   st        created (not yet run), fetching (awaiting crawler.arun),
\*             sleeping (awaiting asyncio.sleep), returned
\*   attempt   the loop variable
\*   outcome   none, stored, empty (gave up on empty content), exhausted
\*   fetches, sleeps, writes: a log of what the call did (the number of
\*             crawler.arun calls, the wait times, the number of file writes)
\*   answers   log: what each crawler.arun call did
NewTask(url, unique_id, max_retries) ==
  [url |-> url, unique_id |-> unique_id, max_retries |-> max_retries,
   st |-> "created", attempt |-> 0, outcome |-> "none",
   fetches |-> 0, sleeps |-> << >>, writes |-> 0, answers |-> << >>]

\* a bug of line 119: range(1, max_retries + 2)
NextAttemptMutant(t) ==
  IF t.attempt + 1 <= t.max_retries + 1
    THEN [t EXCEPT !.attempt = t.attempt + 1, !.st = "fetching",
                   !.fetches = t.fetches + 1]
    ELSE [t EXCEPT !.st = "returned",
                   !.outcome = IF t.outcome = "none" THEN "exhausted" ELSE t.outcome]

\* line 119, 122: the next iteration of for attempt in range(1, max_retries + 1),
\* up to its await of crawler.arun; the loop is over when the range is exhausted
NextAttempt(t) ==
  IF t.attempt + 1 <= t.max_retries
    THEN [t EXCEPT !.attempt = t.attempt + 1, !.st = "fetching",
                   !.fetches = t.fetches + 1]
    ELSE [t EXCEPT !.st = "returned",
                   !.outcome = IF t.outcome = "none" THEN "exhausted" ELSE t.outcome]

\* a bug of lines 126 and 132: empty content is retried like a failed fetch
GaveUpEmptyMutant(t) ==
  IF MayRetry(t.attempt, t.max_retries)
    THEN [t EXCEPT !.st = "sleeping", !.sleeps = Append(t.sleeps, WaitTime(t.attempt))]
    ELSE NextAttempt(t)

\* a bug of line 140: no return after the file is written
SavedMutant(t) ==
  NextAttempt([t EXCEPT !.outcome = "stored", !.writes = t.writes + 1])

\* lines 125-126 and 131-132: print the warning and return
GaveUpEmpty(t) == [t EXCEPT !.st = "returned", !.outcome = "empty"]

\* lines 134-140: write the file, print and return
Saved(t) == [t EXCEPT !.st = "returned", !.outcome = "stored", !.writes = t.writes + 1]

\* lines 123-149: from the return of crawler.arun to the next await or return
AfterFetch(t, resp) ==
  LET logged == [t EXCEPT !.answers = Append(t.answers, resp)]
  IN
  IF ~resp.ok
    THEN IF MayRetry(t.attempt, t.max_retries)
           THEN [logged EXCEPT !.st = "sleeping",
                               !.sleeps = Append(t.sleeps, WaitTime(t.attempt))]
           ELSE NextAttempt(logged)
    ELSE IF EmptyHtml(resp.markdown)
           THEN GaveUpEmpty(logged)
    ELSE IF NoText(GetText(resp.markdown))
           THEN GaveUpEmpty(logged)
    ELSE Saved(logged)

\* lines 134-137: open(scraped_pages/<unique_id>.md, 'w').write(text_content)
WriteFile(fs, unique_id, text_content) ==
  [u \in DOMAIN fs \cup {unique_id} |-> IF u = unique_id THEN text_content ELSE fs[u]]

(***************************************************************************)
(* State.                                                                  *)
(***************************************************************************)
VARIABLES
  queries,      \* the argument of the call
  pc,           \* where the call is: collect, persist, export, launch, fetch,
                \* done, raised (an exception left the call)
  qi,           \* index in queries of the query of the outer loop
  page_number,  \* the inner loop's variable
  seen_urls,    \* the set of canonical URLs
  all_results,  \* the batch
  tracing,      \* which log is kept: of the scrape_query calls (FALSE), or of
                \* the origin of the records (TRUE, in TracedSpec)
  origin,       \* log: for each record of the batch, the query index and the
                \* page of the scrape_query call that returned it
  lastFetch,    \* log: the last scrape_query call, what the provider answered,
                \* and whether an earlier page of its query had returned nothing
  dry,          \* log: a page of the current query has returned no record
  store,        \* the rows of the table search_results
  db,           \* log: the fault and the outcome of this call's save to the DB
  csv,          \* the CSV file of this call: whether it exists, and its rows
                \* after the header row
  tasks,        \* the scrape_page_and_save coroutines handed to gather
  files,        \* scraped_pages/: unique_id -> text
  calls         \* log: the normalize_url calls of NormalizeSpec, each with its
                \* argument and the value it returned

vars ==
  << queries, pc, qi, page_number, seen_urls, all_results, tracing, origin,
     lastFetch, dry, store, db, csv, tasks, files, calls >>

NoResponse == [ok |-> TRUE, entries |-> << >>]
NoFetch ==
  [qi |-> 0, page |-> 0, resp |-> NoResponse, error |-> FALSE, afterDry |-> FALSE]
NoDb == [fault |-> "none", outcome |-> "none", before |-> << >>]
\* exports/bing_results_<ts>.csv before save_to_csv has opened it
NoCsv == [exists |-> FALSE, rows |-> << >>]

\* What earlier calls of scrape_multiple_queries have left behind: nothing, or
\* the row and the page text of http://a/p, found then by the query "Dog x"
PriorRow ==
  SearchResult(Candidate(Q_dog, E_both.title, E_both.url, E_both.snippet,
                         generate_unique_id(normalize_url(E_both.url))))
PriorStates ==
  { [store |-> << >>, files |-> << >>],
    [store |-> << PriorRow >>,
     files |-> [u \in {PriorRow.unique_id} |-> << 111, 107 >>]] }

\* lines 153-154 and the first evaluation of the loops of lines 157-158
Called(qs) ==
  /\ queries = qs
  /\ pc = IF qs = << >> THEN "persist" ELSE "collect"
  /\ qi = 1
  /\ page_number = 1
  /\ seen_urls = {}
  /\ all_results = << >>
  /\ origin = {}
  /\ lastFetch = NoFetch
  /\ dry = FALSE
  /\ db = NoDb
  /\ csv = NoCsv
  /\ tasks = << >>
  /\ calls = << >>

Init ==
  /\ \E qs \in QueryLists : Called(qs)
  /\ \E prior \in PriorStates : store = prior.store /\ files = prior.files
  /\ tracing = FALSE

\* a bug of line 160: the page's records are put in front of the batch
ExtendMutant(results, result_set) == result_set \o results

\* line 160: all_results.extend(result_set)
Extend(results, result_set) == results \o result_set

\* lines 157-160: one iteration of the inner loop, with the scrape_query call it
\* awaits, and the step of the loops to the next (query, page)
ScrapeQuery ==
  /\ pc = "collect"
  /\ \E resp \in ListingResponses :
       LET got == scrape_query(queries[qi], resp, seen_urls)
           n == Len(got.results)
       IN  /\ seen_urls' = got.seen
           /\ all_results' = Extend(all_results, got.results)
           /\ origin' =
                IF tracing
                  THEN origin \cup {[rec |-> got.results[i], qi |-> qi,
                                      page |-> page_number] : i \in 1..n}
                  ELSE origin
           /\ lastFetch' =
                IF tracing THEN lastFetch
                ELSE [qi |-> qi, page |-> page_number, resp |-> resp,
                      error |-> got.error, afterDry |-> dry]
           /\ dry' = IF tracing THEN dry
                     ELSE IF page_number < MaxPages THEN (dry \/ n = 0) ELSE FALSE
  /\ IF page_number < MaxPages
       THEN /\ page_number' = page_number + 1
            /\ UNCHANGED << qi, pc >>
       ELSE /\ page_number' = 1
            /\ qi' = qi + 1
            /\ pc' = IF qi < Len(queries) THEN "collect" ELSE "persist"
  /\ UNCHANGED << calls, tracing, queries, store, db, csv, tasks, files >>

\* lines 162-180: save to DB
Persist ==
  /\ pc = "persist"
  /\ \E fault \in DbFaults :
       LET saved == SaveToDb(store, all_results, fault) IN
         /\ store' = saved.rows
         /\ db' = [fault |-> fault, outcome |-> saved.outcome, before |-> store]
         /\ pc' = IF saved.outcome = "raised" THEN "raised" ELSE "export"
  /\ origin' = {}
  /\ lastFetch' = NoFetch
  /\ dry' = FALSE
  /\ UNCHANGED << calls, tracing, queries, qi, page_number, seen_urls, all_results, csv,
                  tasks, files >>

\* line 183: save to CSV
Export ==
  /\ pc = "export"
  /\ csv' = [exists |-> TRUE, rows |-> save_to_csv(all_results)]
  /\ pc' = "launch"
  /\ UNCHANGED << calls, tracing, queries, qi, page_number, seen_urls, all_results, origin,
                  lastFetch, dry, store, db, tasks, files >>

\* a bug of lines 183-187: the content fetches are launched before save_to_csv
LaunchEarlyMutant ==
  /\ pc = "export"
  /\ tasks' = [i \in 1..Len(all_results) |->
                 NewTask(all_results[i].url, all_results[i].unique_id,
                         DefaultMaxRetries)]
  /\ pc' = "fetch"
  /\ UNCHANGED << calls, tracing, queries, qi, page_number, seen_urls, all_results,
                  origin, lastFetch, dry, store, db, csv, files >>

\* a bug of line 186: every coroutine is given the unique_id of the last record
LaunchSameIdMutant ==
  /\ pc = "launch"
  /\ tasks' = [i \in 1..Len(all_results) |->
                 NewTask(all_results[i].url, all_results[Len(all_results)].unique_id,
                         DefaultMaxRetries)]
  /\ pc' = "fetch"
  /\ UNCHANGED << calls, tracing, queries, qi, page_number, seen_urls, all_results,
                  origin, lastFetch, dry, store, db, csv, files >>

\* line 186: one coroutine per record of the batch; line 187: gather
Launch ==
  /\ pc = "launch"
  /\ tasks' = [i \in 1..Len(all_results) |->
                 NewTask(all_results[i].url, all_results[i].unique_id,
                         DefaultMaxRetries)]
  /\ pc' = "fetch"
  /\ UNCHANGED << calls, tracing, queries, qi, page_number, seen_urls, all_results, origin,
                  lastFetch, dry, store, db, csv, files >>

\* a coroutine starts: it runs to its first await (or returns)
TaskStart(i) ==
  /\ pc = "fetch"
  /\ i \in DOMAIN tasks
  /\ tasks[i].st = "created"
  /\ tasks' = [tasks EXCEPT ![i] = NextAttempt(tasks[i])]
  /\ UNCHANGED << calls, tracing, queries, pc, qi, page_number, seen_urls, all_results,
                  origin, lastFetch, dry, store, db, csv, files >>

\* crawler.arun returns or raises, and the coroutine runs to its next await
FetchReturn(i) ==
  /\ pc = "fetch"
  /\ i \in DOMAIN tasks
  /\ tasks[i].st = "fetching"
  /\ \E resp \in ContentResponses :
       LET t == AfterFetch(tasks[i], resp) IN
         /\ tasks' = [tasks EXCEPT ![i] = t]
         /\ files' = IF t.writes > tasks[i].writes
                       THEN WriteFile(files, t.unique_id, GetText(resp.markdown))
                       ELSE files
  /\ UNCHANGED << calls, tracing, queries, pc, qi, page_number, seen_urls, all_results,
                  origin, lastFetch, dry, store, db, csv >>

\* asyncio.sleep returns, and the loop goes to its next iteration
SleepReturn(i) ==
  /\ pc = "fetch"
  /\ i \in DOMAIN tasks
  /\ tasks[i].st = "sleeping"
  /\ tasks' = [tasks EXCEPT ![i] = NextAttempt(tasks[i])]
  /\ UNCHANGED << calls, tracing, queries, pc, qi, page_number, seen_urls, all_results,
                  origin, lastFetch, dry, store, db, csv, files >>

\* a bug of line 187: the call goes on when the first coroutine has returned
\* (asyncio.wait with FIRST_COMPLETED in the place of gather)
GatherReturnMutant ==
  /\ pc = "fetch"
  /\ \E i \in 1..Len(tasks) : tasks[i].st = "returned"
  /\ pc' = "done"
  /\ UNCHANGED << calls, tracing, queries, qi, page_number, seen_urls, all_results,
                  origin, lastFetch, dry, store, db, csv, tasks, files >>

\* line 187: gather returns when every coroutine has returned
GatherReturn ==
  /\ pc = "fetch"
  /\ \A i \in 1..Len(tasks) : tasks[i].st = "returned"
  /\ pc' = "done"
  /\ UNCHANGED << calls, tracing, queries, qi, page_number, seen_urls, all_results, origin,
                  lastFetch, dry, store, db, csv, tasks, files >>

Next ==
  \/ ScrapeQuery
  \/ Persist
  \/ Export
  \/ Launch
  \/ \E i \in 1..Len(tasks) : TaskStart(i)
  \/ \E i \in 1..Len(tasks) : FetchReturn(i)
  \/ \E i \in 1..Len(tasks) : SleepReturn(i)
  \/ GatherReturn

Spec == Init /\ [][Next]_vars

(***************************************************************************)
(* TracedSpec: one call on an empty database, with the log origin kept.    *)
(***************************************************************************)
TracedInit ==
  /\ \E qs \in QueryLists : Called(qs)
  /\ store = << >>
  /\ files = << >>
  /\ tracing = TRUE

TracedSpec == TracedInit /\ [][Next]_vars

(***************************************************************************)
(* FetchSpec: scrape_page_and_save(url, unique_id, max_retries) called     *)
(* with any max_retries in 0..MaxRetriesArg, for one URL or for two URLs   *)
(* at the same time (the coroutines are awaited by one gather).            *)
(* FairFetchSpec adds what the event loop provides: a coroutine that can   *)
(* run does run, crawler.arun returns or raises (it has a timeout) and     *)
(* asyncio.sleep returns.                                                  *)
(***************************************************************************)
InvocationUrls == << U_A1, U_B >>

Invocation(k, max_retries) ==
  NewTask(InvocationUrls[k], generate_unique_id(normalize_url(InvocationUrls[k])),
          max_retries)

FetchInit ==
  /\ queries = << >>
  /\ pc = "fetch"
  /\ qi = 1
  /\ page_number = 1
  /\ seen_urls = {}
  /\ all_results = << >>
  /\ tracing = FALSE
  /\ origin = {}
  /\ lastFetch = NoFetch
  /\ dry = FALSE
  /\ store = << >>
  /\ db = NoDb
  /\ csv = NoCsv
  /\ files = << >>
  /\ calls = << >>
  /\ \E m1, m2 \in 0..MaxRetriesArg :
       tasks \in { << Invocation(1, m1) >>, << Invocation(1, m1), Invocation(2, m2) >> }

FetchNext ==
  \/ \E i \in 1..Len(tasks) : TaskStart(i)
  \/ \E i \in 1..Len(tasks) : FetchReturn(i)
  \/ \E i \in 1..Len(tasks) : SleepReturn(i)
  \/ GatherReturn

FetchSpec == FetchInit /\ [][FetchNext]_vars

FairFetchSpec ==
  /\ FetchSpec
  /\ \A i \in 1..Len(InvocationUrls) :
       /\ WF_vars(TaskStart(i))
       /\ WF_vars(FetchReturn(i))
       /\ WF_vars(SleepReturn(i))
  /\ WF_vars(GatherReturn)

(***************************************************************************)
(* NormalizeSpec: normalize_url called up to MaxCalls times, each time on   *)
(* a URL of UrlInputs or on the value an earlier call returned.            *)
(***************************************************************************)
\* one query parameter k=v, k and v one character each
Param(k, v) == [k |-> << k >>, v |-> << v >>]

\* http://b/?a=2&b=1 : U_B with its parameters in the other order
U_B2 == Url(S_http, << 98 >>, << 47 >>, << Param(97, 50), Param(98, 49) >>)
\* HTTP://B?b=1&a=2 : U_B in capitals and without the slash
U_B3 == Url(<< 72, 84, 84, 80 >>, << 66 >>, << >>, << Param(98, 49), Param(97, 50) >>)
\* http://d/?a=1&a=2 and http://d/?a=2&a=1 : one key twice
U_D1 == Url(S_http, << 100 >>, << 47 >>, << Param(97, 49), Param(97, 50) >>)
U_D2 == Url(S_http, << 100 >>, << 47 >>, << Param(97, 50), Param(97, 49) >>)
\* http://c/?a= : a parameter with a blank value
U_C2 == Url(S_http, << 99 >>, << 47 >>, << [k |-> << 97 >>, v |-> << >>] >>)

UrlInputs == {U_A1, U_A2, U_B, U_B2, U_B3, U_C, U_C2, U_D1, U_D2}

NormalizeInit ==
  /\ queries = << >>
  /\ pc = "normalize"
  /\ qi = 1
  /\ page_number = 1
  /\ seen_urls = {}
  /\ all_results = << >>
  /\ tracing = FALSE
  /\ origin = {}
  /\ lastFetch = NoFetch
  /\ dry = FALSE
  /\ store = << >>
  /\ db = NoDb
  /\ csv = NoCsv
  /\ tasks = << >>
  /\ files = << >>
  /\ calls = << >>

\* lines 14-28: one call normalize_url(url)
NormalizeUrl ==
  /\ pc = "normalize"
  /\ Len(calls) < MaxCalls
  /\ \E url \in UrlInputs \cup {calls[i].result : i \in 1..Len(calls)} :
       calls' = Append(calls, [url |-> url, result |-> normalize_url(url)])
  /\ UNCHANGED << tracing, queries, pc, qi, page_number, seen_urls, all_results,
                  origin, lastFetch, dry, store, db, csv, tasks, files >>

NormalizeSpec == NormalizeInit /\ [][NormalizeUrl]_vars

(***************************************************************************)
(* ExportSpec: save_to_csv called on any list of up to MaxCsvLen records,  *)
(* with or without records of the same canonical URL.                      *)
(***************************************************************************)
\* a record of the URL url, as line 99 builds it
RecordOf(url) ==
  Candidate(Q_cat, << 67, 97, 116 >>, url, << >>, generate_unique_id(normalize_url(url)))

ExportRecords == {RecordOf(u) : u \in {U_A1, U_A2, U_B, U_B2, U_C}}

ExportInit ==
  /\ queries = << >>
  /\ pc = "export"
  /\ qi = 1
  /\ page_number = 1
  /\ seen_urls = {}
  /\ all_results \in SeqsUpTo(ExportRecords, MaxCsvLen)
  /\ tracing = FALSE
  /\ origin = {}
  /\ lastFetch = NoFetch
  /\ dry = FALSE
  /\ store = << >>
  /\ db = NoDb
  /\ csv = NoCsv
  /\ tasks = << >>
  /\ files = << >>
  /\ calls = << >>

ExportSpec == ExportInit /\ [][Export]_vars

(***************************************************************************)
(* Properties.                                                             *)
(***************************************************************************)
BatchIndex == 1..Len(all_results)

\* C1 (Spec): no two records of the batch have the same canonical URL or the
\* same unique_id, whatever the queries and the pages they come from.
C1_Dedup ==
  \A i, j \in BatchIndex :
    i # j =>
      /\ normalize_url(all_results[i].url) # normalize_url(all_results[j].url)
      /\ all_results[i].unique_id # all_results[j].unique_id

\* a listing with http://A/p/ and http://a/p has been parsed, and the batch
\* holds one of the two
C1_Witness ==
  /\ lastFetch.resp.entries = << E_cat, E_both >>
  /\ Len(all_results) = 1
  /\ all_results[1].url = U_A1

\* C2 (Spec): once a page of a query has returned no new record, no later page
\* of that query is fetched.
C2_PaginationStops == ~lastFetch.afterDry

\* C4 (Spec): when the database works and a record of the batch has a unique_id
\* that is stored already, the save is committed and the table holds one row
\* of that unique_id, with the record's query, title, url and snippet.
C4_UpsertAcrossRuns ==
  (db.outcome # "none" /\ db.fault = "none") =>
    \A i \in BatchIndex :
      all_results[i].unique_id \in StoredIds(db.before) =>
        /\ db.outcome = "committed"
        /\ Cardinality({k \in 1..Len(store) :
                          store[k].unique_id = all_results[i].unique_id}) = 1
        /\ \E k \in 1..Len(store) : store[k] = SearchResult(all_results[i])

\* C5 (Spec): whatever fails in the save to the DB, no exception leaves the
\* call: the CSV is written and the content fetches are launched.
C5_PersistFailureNonFatal ==
  db.fault # "none" => pc \in {"export", "launch", "fetch", "done"}

\* C8 (Spec): a scrape_query call that fails returns no record and raises
\* nothing, the calls go on with the next page of the query, and no
\* (query, page) is asked for twice.
FetchBefore(f, g) == f.qi < g.qi \/ (f.qi = g.qi /\ f.page < g.page)
C8_ListingErrorSwallowed ==
  [][ (lastFetch' # lastFetch /\ lastFetch'.qi # 0) =>
        /\ lastFetch'.qi = qi /\ lastFetch'.page = page_number
        /\ FetchBefore(lastFetch, lastFetch')
        /\ lastFetch'.error =>
             /\ all_results' = all_results
             /\ pc' # "raised"
             /\ page_number < MaxPages =>
                  pc' = "collect" /\ qi' = qi /\ page_number' = page_number + 1
    ]_vars

\* page 2 of a query was fetched after page 1 had failed, and failed too
C8_Witness ==
  /\ lastFetch.error
  /\ lastFetch.page = 2
  /\ lastFetch.afterDry
  /\ all_results = << >>
  /\ pc = "collect"
  /\ page_number = 3

\* C9 (TracedSpec): the batch is in the order of the queries and, within a
\* query, of the pages: of two records, the earlier one comes from an earlier
\* query of the list, or from the same query and no later page.
OriginOf(r) == CHOOSE o \in origin : o.rec = r
C9_BatchOrder ==
  pc \in {"collect", "persist"} =>
    /\ \A i \in BatchIndex : \E o \in origin : o.rec = all_results[i]
    /\ \A i, j \in BatchIndex :
         i < j =>
           LET a == OriginOf(all_results[i])
               b == OriginOf(all_results[j])
           IN  a.qi < b.qi \/ (a.qi = b.qi /\ a.page <= b.page)

\* the batch holds a record of page 1 and then one of page 3 of the same query
C9_Witness ==
  /\ pc = "persist"
  /\ Len(all_results) = 2
  /\ \E a, b \in origin :
       /\ a.rec = all_results[1] /\ b.rec = all_results[2]
       /\ a.qi = b.qi /\ a.page = 1 /\ b.page = 3

\* C10 (Spec): every record of the batch has a title, a url, and a keyword of
\* its query in its title or snippet (case ignored); every URL of the registry
\* is the canonical URL of such an entry.
HasKeyword(query, title, snippet) ==
  LET words == Split(Lower(query)) IN
    \E k \in 1..Len(words) :
      Contains(Lower(title), words[k]) \/ Contains(Lower(snippet), words[k])
Passes == [q \in Queries, e \in Entries |->
             e.title # << >> /\ e.url # EmptyUrl /\ HasKeyword(q, e.title, e.snippet)]
C10_FilterInvariant ==
  /\ \A i \in BatchIndex :
       LET r == all_results[i] IN
         /\ r.title # << >>
         /\ r.url # EmptyUrl
         /\ Entry(r.title, r.url, r.snippet) \in Entries
         /\ Passes[r.query, Entry(r.title, r.url, r.snippet)]
  /\ \A u \in seen_urls :
       \E e \in Entries, k \in 1..Len(queries) :
         Passes[queries[k], e] /\ ~Raises[e.url] /\ Canonical[e.url] = u

\* a listing with the entry of http://c, which has no keyword of the query, has
\* been parsed, and neither the batch nor the registry has changed
C10_Witness ==
  /\ lastFetch.resp.entries = << E_other >>
  /\ ~lastFetch.error
  /\ all_results = << >>
  /\ seen_urls = {}

TaskIndex == 1..Len(tasks)

\* C3 (FairFetchSpec): a call makes at most max_retries fetches, and it returns
\* (the text stored, or given up).
C3_RetryBound ==
  /\ [](\A i \in TaskIndex : tasks[i].fetches <= tasks[i].max_retries)
  /\ <>(\A i \in TaskIndex :
          tasks[i].st = "returned" /\ tasks[i].outcome \in {"stored", "empty", "exhausted"})

\* a call with max_retries = 3 has made three fetches, all failed, and returned
C3_Witness ==
  \E i \in TaskIndex :
    /\ tasks[i].max_retries = 3
    /\ tasks[i].fetches = 3
    /\ tasks[i].st = "returned"
    /\ tasks[i].outcome = "exhausted"

\* the body has no text: every character outside the tags is whitespace
Blank(resp) ==
  resp.ok /\ \A k \in 1..Len(TextOutsideTags(resp.markdown, FALSE)) :
               IsSpace(TextOutsideTags(resp.markdown, FALSE)[k])

\* C6 (FetchSpec): a fetch answered with an empty body, or one with no text, is
\* the call's last: the call has returned, has written nothing, has not slept
\* since (its sleeps are those after the failed fetches before) and has made
\* no further fetch.
C6_EmptyIsTerminal ==
  \A i \in TaskIndex :
    LET t == tasks[i] IN
      \A k \in 1..Len(t.answers) :
        Blank(t.answers[k]) =>
          /\ k = Len(t.answers)
          /\ t.fetches = k
          /\ t.st = "returned"
          /\ t.outcome = "empty"
          /\ t.writes = 0
          /\ Len(t.sleeps) = k - 1
          /\ t.unique_id \notin DOMAIN files

\* the second fetch of a call, after a failed one, was answered with "<p>"
C6_Witness ==
  \E i \in TaskIndex :
    /\ Len(tasks[i].answers) = 2
    /\ ~tasks[i].answers[1].ok
    /\ tasks[i].answers[2] = [ok |-> TRUE, markdown |-> << 60, 112, 62 >>]
    /\ tasks[i].st = "returned"

\* C7 (FetchSpec): when the fetches of a call fail k times (k < max_retries) and
\* fetch k+1 is answered with text, the text is written once, under the
\* unique_id, and fetch k+1 is the last.
C7_TransientThenStored ==
  \A i \in TaskIndex :
    LET t == tasks[i]
        n == Len(t.answers)
    IN  ( /\ n >= 1
          /\ n <= t.max_retries
          /\ \A k \in 1..(n - 1) : ~t.answers[k].ok
          /\ t.answers[n].ok /\ ~Blank(t.answers[n]) ) =>
          /\ t.writes = 1
          /\ t.fetches = n
          /\ t.st = "returned"
          /\ t.outcome = "stored"
          /\ t.unique_id \in DOMAIN files
          /\ files[t.unique_id] = GetText(t.answers[n].markdown)

\* two fetches have failed and the third one, of max_retries = 3, was answered
\* with "<p>ok "
C7_Witness ==
  \E i \in TaskIndex :
    /\ tasks[i].max_retries = 3
    /\ Len(tasks[i].answers) = 3
    /\ ~tasks[i].answers[1].ok
    /\ ~tasks[i].answers[2].ok
    /\ tasks[i].answers[3].ok /\ ~Blank(tasks[i].answers[3])
    /\ tasks[i].st = "returned"
    /\ files[tasks[i].unique_id] = << 111, 107 >>
(***************************************************************************)
(* Canonicalization (NormalizeSpec).                                       *)
(***************************************************************************)
CallIndex == 1..Len(calls)

\* C11 (NormalizeSpec): normalize_url is idempotent: a call whose argument is
\* the value another call returned returns its argument.
C11_Idempotent ==
  \A i, j \in CallIndex :
     calls[j].url = calls[i].result => calls[j].result = calls[j].url

\* t is s with its elements in another order
IsPermutation(s, t) ==
  /\ Len(s) = Len(t)
  /\ \E f \in Permutations(1..Len(s)) : \A i \in 1..Len(s) : t[i] = s[f[i]]

\* p and q are the same path, or one is the other followed by a slash
SameUpToSlash(p, q) == p = q \/ p = Append(q, 47) \/ q = Append(p, 47)

\* u and v differ at most in the order of their query parameters, in a
\* trailing slash of the path and in the letter case of scheme and host
DifferOnlyInForm(u, v) ==
  /\ Lower(u.scheme) = Lower(v.scheme)
  /\ Lower(u.netloc) = Lower(v.netloc)
  /\ SameUpToSlash(u.path, v.path)
  /\ IsPermutation(u.query, v.query)

\* C12 (NormalizeSpec): two URLs that differ only in the order of their query
\* parameters, in a trailing slash or in the case of scheme and host have the
\* same canonical form, and so the same unique_id.
C12_Equivalence ==
  \A i, j \in CallIndex :
     DifferOnlyInForm(calls[i].url, calls[j].url)
       => /\ calls[i].result = calls[j].result
          /\ generate_unique_id(calls[i].result) = generate_unique_id(calls[j].result)

(***************************************************************************)
(* The content-fetch phase.                                                *)
(***************************************************************************)
\* the outcome the answers to a call's own fetches decide
OwnOutcome(t) ==
  LET n == Len(t.answers) IN
    IF n = 0 \/ ~t.answers[n].ok THEN "exhausted"
    ELSE IF Blank(t.answers[n]) THEN "empty"
    ELSE "stored"

\* C13 (FairFetchSpec): gather returns only when every call has returned; the
\* outcome of a call is decided by the answers to its own fetches alone (it is
\* exhausted only after max_retries failures of its own), a step of one call
\* leaves every other call as it is, and the run comes to its end.
C13_WaitForAll ==
  /\ [](pc = "done" => \A i \in TaskIndex : tasks[i].st = "returned")
  /\ [](\A i \in TaskIndex :
          tasks[i].st = "returned" =>
            /\ tasks[i].outcome = OwnOutcome(tasks[i])
            /\ tasks[i].outcome = "exhausted" =>
                 Len(tasks[i].answers) = tasks[i].max_retries)
  /\ [][\A i, j \in TaskIndex :
          (i # j /\ tasks'[i] # tasks[i]) => tasks'[j] = tasks[j]]_vars
  /\ <>(pc = "done")

\* gather has returned; the first call had exhausted its three fetches, the
\* second one stored its text at its second fetch
C13_Witness ==
  /\ pc = "done"
  /\ Len(tasks) = 2
  /\ tasks[1].outcome = "exhausted" /\ tasks[1].fetches = 3
  /\ tasks[2].outcome = "stored" /\ tasks[2].fetches = 2

\* the calls awaiting crawler.arun
InFlight == {i \in TaskIndex : tasks[i].st = "fetching"}

\* a worker pool smaller than the number of calls handed to gather
WorkerPoolSize == Len(InvocationUrls) - 1

\* C14 (FetchSpec): the number of content fetches in flight at the same time is
\* at most the size of the worker pool, however many calls there are.
C14_BoundedFanOut == Cardinality(InFlight) <= WorkerPoolSize

(***************************************************************************)
(* The CSV export (ExportSpec).                                            *)
(***************************************************************************)
RowIndex == 1..Len(csv.rows)

\* no record before record i has its canonical URL
FirstOfItsUrl(i) ==
  \A j \in 1..(i - 1) :
     normalize_url(all_results[j].url) # normalize_url(all_results[i].url)

\* C15 (ExportSpec): whatever records save_to_csv is given, the rows it writes
\* have pairwise distinct canonical URLs, they are the first records of their
\* canonical URLs, all of them, and they are in the order of the records.
C15_ExportDedup ==
  csv.exists =>
    /\ \A k, l \in RowIndex :
         k # l => normalize_url(csv.rows[k].url) # normalize_url(csv.rows[l].url)
    /\ \E f \in [RowIndex -> BatchIndex] :
         /\ \A k \in RowIndex : csv.rows[k] = all_results[f[k]] /\ FirstOfItsUrl(f[k])
         /\ \A k, l \in RowIndex : k < l => f[k] < f[l]
    /\ \A i \in BatchIndex :
         FirstOfItsUrl(i) => \E k \in RowIndex : csv.rows[k] = all_results[i]

\* the records of http://A/p/, http://b/?b=1&a=2 and http://a/p were given, and
\* the rows of the first two were written
C15_Witness ==
  /\ csv.exists
  /\ all_results = << RecordOf(U_A1), RecordOf(U_B), RecordOf(U_A2) >>
  /\ csv.rows = << RecordOf(U_A1), RecordOf(U_B) >>

(***************************************************************************)
(* The phases of scrape_multiple_queries (Spec).                           *)
(***************************************************************************)
\* the loops of lines 157-158 are over: the last page of the last query has
\* been fetched
CollectDone == qi > Len(queries)
\* the save to DB is over (committed or rolled back)
PersistDone == db.outcome \in {"committed", "rolled_back"}

\* C16 (Spec): the phases come in the order collect, save to DB, save to CSV,
\* fetch content.  A listing fetch happens only while nothing is saved,
\* exported or launched; the save to DB happens once, when the collection is
\* over and before the CSV exists; the CSV is written when the save to DB is
\* over; the content fetches start when the CSV exists, and the batch does not
\* change any more.
C16_PhaseOrder ==
  [][ /\ (qi' # qi \/ page_number' # page_number \/ all_results' # all_results) =>
           db.outcome = "none" /\ ~csv.exists /\ tasks = << >>
      /\ (db' # db \/ store' # store) =>
           CollectDone /\ db.outcome = "none" /\ ~csv.exists /\ tasks = << >>
      /\ csv' # csv =>
           CollectDone /\ PersistDone /\ ~csv.exists /\ tasks = << >>
      /\ tasks' # tasks =>
           CollectDone /\ PersistDone /\ csv.exists /\ all_results' = all_results
    ]_vars

\* two queries were collected, the batch of two records was committed and
\* exported, and a content fetch has been made
C16_Witness ==
  /\ pc = "fetch"
  /\ Len(queries) = 2
  /\ Len(all_results) = 2
  /\ db.outcome = "committed"
  /\ Len(csv.rows) = 2
  /\ \E i \in TaskIndex : tasks[i].fetches >= 1

(***************************************************************************)
(* The retries of scrape_page_and_save (FetchSpec).                        *)
(***************************************************************************)
\* the fetches of the call t that failed (crawler.arun raised)
Failed(t) == {k \in 1..Len(t.answers) : ~t.answers[k].ok}

\* C17 (FetchSpec): every failed fetch a with a < max_retries is followed by
\* one sleep of 5 * a, and fetch a + 1 is made only when that sleep is over;
\* there is no other sleep; after a failed fetch a = max_retries the call
\* does not sleep and returns, its fetches exhausted.
C17_Backoff ==
  \A i \in TaskIndex :
    LET t == tasks[i]
        n == Len(t.answers)
    IN  /\ Len(t.sleeps) = Cardinality({k \in Failed(t) : k < t.max_retries})
        /\ \A k \in 1..Len(t.sleeps) : k \in Failed(t) /\ t.sleeps[k] = 5 * k
        /\ t.st = "sleeping" => t.fetches = n /\ Len(t.sleeps) = n
        /\ t.st = "fetching" => t.fetches = n + 1 /\ Len(t.sleeps) = n
        /\ (n >= 1 /\ n = t.max_retries /\ n \in Failed(t)) =>
             /\ t.st = "returned"
             /\ t.outcome = "exhausted"
             /\ t.fetches = n
             /\ Len(t.sleeps) = n - 1

\* a call with max_retries = 3 has failed three times, slept 5 and then 10, and
\* returned
C17_Witness ==
  \E i \in TaskIndex :
    /\ tasks[i].max_retries = 3
    /\ Failed(tasks[i]) = {1, 2, 3}
    /\ tasks[i].sleeps = << 5, 10 >>
    /\ tasks[i].st = "returned"

(***************************************************************************)
(* The save to DB (Spec).                                                  *)
(***************************************************************************)
\* C18 (Spec): when the save to DB fails (merge or commit raises, whatever
\* rollback does then), the table holds, from then on to the end of the run,
\* the rows it held before the save: no row of the batch is in it.
C18_AtomicPersist ==
  (db.outcome \in {"rolled_back", "raised"} /\ db.fault # "get_session") =>
    store = db.before

\* the run is over; the commit of a batch of two records had failed, on a
\* table that held a row
C18_Witness ==
  /\ pc = "done"
  /\ db.fault = "commit"
  /\ db.outcome = "rolled_back"
  /\ Len(all_results) = 2
  /\ db.before = << PriorRow >>
  /\ store = << PriorRow >>

(***************************************************************************)
(* The registry of canonical URLs (Spec).                                  *)
(***************************************************************************)
\* C19 (Spec): after every scrape_query call, failed or not, seen_urls is the
\* set of the canonical URLs of the records of the batch.
C19_RegistryAgrees ==
  seen_urls = {normalize_url(all_results[i].url) : i \in BatchIndex}

(***************************************************************************)
(* The files of scraped_pages/ (Spec).                                     *)
(***************************************************************************)
\* C20 (Spec): the coroutines handed to gather have pairwise distinct
\* unique_ids, and a step that writes a file is the step of one coroutine and
\* writes the file of that coroutine's unique_id and no other: no two
\* coroutines of a run write the same file.
C20_NoKeyRace ==
  /\ [](\A i, j \in TaskIndex : i # j => tasks[i].unique_id # tasks[j].unique_id)
  /\ [][files' # files =>
          \E i \in TaskIndex :
            /\ tasks'[i].writes = tasks[i].writes + 1
            /\ \A j \in TaskIndex \ {i} : tasks'[j] = tasks[j]
            /\ tasks[i].unique_id \in DOMAIN files'
            /\ \A u \in DOMAIN files' \ {tasks[i].unique_id} :
                 u \in DOMAIN files /\ files'[u] = files[u]]_vars

\* the run is over, and each of its two coroutines has written its file
C20_Witness ==
  /\ pc = "done"
  /\ Len(tasks) = 2
  /\ tasks[1].writes = 1 /\ tasks[2].writes = 1
  /\ {tasks[1].unique_id, tasks[2].unique_id} \subseteq DOMAIN files
  /\ tasks[1].unique_id # tasks[2].unique_id

====
